---- MODULE Spec2Model ----
(***************************************************************************)
(* Model of CSVKdbLogHandler (src/KdbLogHandler/kdbloghandler.py): a       *)
(* reader that groups the per-level rows of a KDB dump file into one       *)
(* merged record per market-data update.  The handler owns a generator     *)
(* over the lines of the file (__parse), a lookahead flag (__repeat) and   *)
(* the header (columnNamesList); get_next_record pulls rows from the       *)
(* generator until it sees a boundary.                                     *)
(*                                                                         *)
(* A line of the file is a record                                          *)
(*    level  : the text of column 7 (the level),                           *)
(*    last   : the text of the last column (line[-1]),                     *)
(*    bidask : the content of columns 8..13, which the model takes to be   *)
(*             the number of the line in the file, so that every line      *)
(*             carries a payload of its own.                               *)
(* dump[1] is the header line, dump[2..] are the data rows.                *)
(***************************************************************************)
EXTENDS Integers, Sequences, FiniteSets, TLC

\* Longest file (in data rows) of the specification Spec.
MaxRows == 3
\* Longest file (in data rows) of the specification SpecWF (well-formed files).
MaxRowsWF == 5
\* Number of __iter__ calls made on one handler.
MaxIters == 2

VARIABLES
  dump,             \* the lines of the file named by self.filename
  pc,               \* "new": no handler yet, "ready": constructed, "failed": __init__ raised,
                    \* "base": a handler of the base class KdbLogHandler
  gen,              \* self.gen: the generator, [at |-> line it is suspended on, done |-> exhausted]
  repeat,           \* self.__repeat: TRUE for True, FALSE for None
  columnNamesList,  \* self.columnNamesList: the header line
  iters,            \* the callable-iterators handed out by __iter__: TRUE while usable
  last,             \* what the most recent operation did (its exit and what it held)
  out,              \* results delivered since the cursor was last set to the start
  pure,             \* every entry of out was delivered by an iterator
  direct            \* results delivered by the fresh handler before its first __iter__

vars == <<dump, pc, gen, repeat, columnNamesList, iters, last, out, pure, direct>>

(***************************************************************************)
(* Texts and their conversion                                              *)
(***************************************************************************)
\* The texts a level column holds in the files of Spec ("x" is not a number)
\* and in the well-formed files of SpecWF, and the texts of the last column.
LevelTexts == {"1", "2", "x"}
WFLevelTexts == {"1", "2", "3"}
LastTexts == {"a", "b"}

\* int(text) raises ValueError unless the text is a number.
IsNumeric(s) == s \in {"1", "2", "3"}

\* int(text) for the texts that are numbers.
int(s) == CASE s = "1" -> 1 [] s = "2" -> 2 [] s = "3" -> 3

\* The header line: its level column holds the column's name.
Header == [level |-> "level", last |-> "time", bidask |-> 1]

Rows(n) == [1..n -> LevelTexts \X LastTexts]

\* The file with the header and the given data rows.
FileOf(rows) ==
  <<Header>> \o [i \in 1..Len(rows) |->
                   [level |-> rows[i][1], last |-> rows[i][2], bidask |-> i + 1]]

\* Every file: no line at all, or a header followed by up to MaxRows rows.
Dumps == {<< >>} \cup {FileOf(rows) : rows \in UNION {Rows(n) : n \in 0..MaxRows}}

(***************************************************************************)
(* The generator __parse and the exchange with it                          *)
(***************************************************************************)
NoLine == [level |-> "", last |-> "", bidask |-> 0]

\* A generator that starts over at the first data row once it is finished.
parse_send_restarts(g, v) ==
  IF g.done /\ Len(dump) >= 2
    THEN [stop |-> FALSE, gen |-> [at |-> 2, done |-> FALSE], row |-> dump[2]]
  ELSE IF g.done THEN [stop |-> TRUE, gen |-> g, row |-> NoLine]
  ELSE IF v THEN [stop |-> FALSE, gen |-> g, row |-> dump[g.at]]
  ELSE IF g.at < Len(dump)
         THEN [stop |-> FALSE, gen |-> [at |-> g.at + 1, done |-> FALSE],
               row |-> dump[g.at + 1]]
         ELSE [stop |-> TRUE, gen |-> [at |-> g.at, done |-> TRUE], row |-> NoLine]

\* A generator that takes the next line whatever value is sent.
parse_send_ignores_value(g, v) ==
  IF g.done THEN [stop |-> TRUE, gen |-> g, row |-> NoLine]
  ELSE IF g.at < Len(dump)
         THEN [stop |-> FALSE, gen |-> [at |-> g.at + 1, done |-> FALSE],
               row |-> dump[g.at + 1]]
         ELSE [stop |-> TRUE, gen |-> [at |-> g.at, done |-> TRUE], row |-> NoLine]

\* gen.send(v) / gen.next() on the generator g that was started by a next():
\* a true v makes "while (yield rowDict)" yield the same line again, a false
\* v (None) lets the for loop take the next line; at the end of the file, and
\* on a finished generator, StopIteration is raised.
parse_send(g, v) ==
  IF g.done THEN [stop |-> TRUE, gen |-> g, row |-> NoLine]
  ELSE IF v THEN [stop |-> FALSE, gen |-> g, row |-> dump[g.at]]
  ELSE IF g.at < Len(dump)
         THEN [stop |-> FALSE, gen |-> [at |-> g.at + 1, done |-> FALSE],
               row |-> dump[g.at + 1]]
         ELSE [stop |-> TRUE, gen |-> [at |-> g.at, done |-> TRUE], row |-> NoLine]

\* A start that also needs a first data row after the header.
parse_start_needs_row ==
  IF Len(dump) <= 1
    THEN [stop |-> TRUE, gen |-> [at |-> 0, done |-> TRUE], row |-> NoLine]
    ELSE [stop |-> FALSE, gen |-> [at |-> 1, done |-> FALSE], row |-> dump[1]]

\* self.__parse(filename) followed by gen.next(): the generator opens the file
\* and yields its first line; on a file without lines the next() raises
\* StopIteration.
parse_start ==
  IF Len(dump) = 0
    THEN [stop |-> TRUE, gen |-> [at |-> 0, done |-> TRUE], row |-> NoLine]
    ELSE [stop |-> FALSE, gen |-> [at |-> 1, done |-> FALSE], row |-> dump[1]]

(***************************************************************************)
(* __merge                                                                 *)
(***************************************************************************)
NoSnapshot == [ident |-> "", levels |-> << >>]

\* A __merge in which the first row with a level keeps the entry.
merge_first_writer_wins(lines) ==
  LET keys == {int(lines[i].level) - 1 : i \in DOMAIN lines}
      writer(k) == CHOOSE i \in DOMAIN lines :
                     /\ int(lines[i].level) - 1 = k
                     /\ \A j \in DOMAIN lines : int(lines[j].level) - 1 = k => j >= i
  IN [ident |-> lines[1].last, levels |-> [k \in keys |-> lines[writer(k)].bidask]]

\* A __merge without its return statement: the caller gets None.
merge_returns_none(lines) == NoSnapshot

\* The joint dict: the columns outside 7..13 come from lines[0]; every line
\* writes bid{N-1}/ask{N-1} for its level N, in order, a later line replacing
\* an earlier one with the same level.
merge(lines) ==
  LET keys == {int(lines[i].level) - 1 : i \in DOMAIN lines}
      writer(k) == CHOOSE i \in DOMAIN lines :
                     /\ int(lines[i].level) - 1 = k
                     /\ \A j \in DOMAIN lines : int(lines[j].level) - 1 = k => j <= i
  IN [ident |-> lines[1].last, levels |-> [k \in keys |-> lines[writer(k)].bidask]]

(***************************************************************************)
(* get_next_record                                                         *)
(***************************************************************************)
\* A boundary test that looks at the level reset only.
IsBoundary_level_reset_only(prev, cur) ==
  int(cur.level) = 1

\* A boundary test satisfied by either of its two conditions.
IsBoundary_either(prev, cur) ==
  \/ int(prev.level) # int(cur.level) - 1
  \/ prev.last # cur.last

\* The test of line 72 on the last two lines read, once both levels are numbers.
IsBoundary(prev, cur) ==
  /\ int(prev.level) # int(cur.level) - 1
  /\ prev.last # cur.last

\* The while loop of get_next_record from generator g, flag rep and the lines
\* read so far: its exit (return, StopIteration out of gen.send, ValueError out
\* of int), the generator and the flag it leaves, and the lines it held.
RECURSIVE accumulate(_, _, _)
accumulate(g, rep, lines) ==
  LET s == parse_send(g, rep)
      ls == Append(lines, s.row)
      n == Len(ls)
  IN IF s.stop
       THEN [exit |-> "StopIteration", gen |-> s.gen, repeat |-> rep,
             lines |-> lines, value |-> NoSnapshot]
     ELSE IF n = 1
       THEN accumulate(s.gen, FALSE, ls)
     ELSE IF ~IsNumeric(ls[n - 1].level) \/ ~IsNumeric(ls[n].level)
       THEN [exit |-> "ValueError", gen |-> s.gen, repeat |-> rep,
             lines |-> ls, value |-> NoSnapshot]
     ELSE IF IsBoundary(ls[n - 1], ls[n])
       THEN [exit |-> IF \A i \in 1..(n - 1) : IsNumeric(ls[i].level)
                        THEN "return" ELSE "ValueError",
             gen |-> s.gen, repeat |-> TRUE, lines |-> SubSeq(ls, 1, n - 1),
             value |-> IF \A i \in 1..(n - 1) : IsNumeric(ls[i].level)
                         THEN merge(SubSeq(ls, 1, n - 1)) ELSE NoSnapshot]
     ELSE accumulate(s.gen, FALSE, ls)

\* One call of get_next_record on the handler's current state.
call == accumulate(gen, repeat, << >>)

\* The entry of out for a call that did not end the stream: how the call
\* ended, what it returned and the numbers of the lines it held.
Event(r) ==
  [exit |-> r.exit, value |-> r.value,
   rows |-> [i \in DOMAIN r.lines |-> r.lines[i].bidask]]

\* What a caller sees of an entry.
Seen(e) == [exit |-> e.exit, value |-> e.value]

\* Repeated get_next_record calls from generator g and flag rep until the
\* stream ends: the results in order (a ValueError is a result too, the
\* caller going on after it).
RECURSIVE traverse(_, _)
traverse(g, rep) ==
  LET r == accumulate(g, rep, << >>)
  IN IF r.exit = "StopIteration" THEN << >>
     ELSE <<Seen(Event(r))>> \o traverse(r.gen, r.repeat)

(***************************************************************************)
(* Operations                                                              *)
(***************************************************************************)
\* by: the number of the iterator that made the call, 0 for any other caller.
NoCall == [op |-> "none", exit |-> "none", lines |-> << >>, value |-> NoSnapshot,
           before |-> [done |-> FALSE, repeat |-> FALSE, pure |-> TRUE], by |-> 0]

\* What the operation found: the generator finished, the flag set, the pass
\* delivered by iterators only.
Before == [done |-> gen.done, repeat |-> repeat, pure |-> pure]

InitWith(files) ==
  /\ dump \in files
  /\ pc = "new"
  /\ gen = [at |-> 0, done |-> FALSE]
  /\ repeat = FALSE
  /\ columnNamesList = NoLine
  /\ iters = << >>
  /\ last = NoCall
  /\ out = << >>
  /\ pure = TRUE
  /\ direct = << >>

Init == InitWith(Dumps)

\* Well-formed data rows: the rows of every update carry the levels 1, 2, ...
\* in order and one value of the last column.
WellFormed(rows) ==
  /\ Len(rows) > 0 => rows[1][1] = "1"
  /\ \A i \in 2..Len(rows) :
       \/ rows[i][1] = "1"
       \/ /\ int(rows[i][1]) = int(rows[i - 1][1]) + 1
          /\ rows[i][2] = rows[i - 1][2]

WFDumps ==
  {FileOf(rows) : rows \in
     UNION {{r \in [1..n -> WFLevelTexts \X LastTexts] : WellFormed(r)} : n \in 0..MaxRowsWF}}

InitWF == InitWith(WFDumps)

\* CSVKdbLogHandler(filename): __init__ with __get_column_names, which starts
\* the generator and takes the header from it.
CSV_init ==
  /\ pc = "new"
  /\ LET s == parse_start IN
       /\ gen' = s.gen
       /\ pc' = IF s.stop THEN "failed" ELSE "ready"
       /\ columnNamesList' = s.row
       /\ last' = [NoCall EXCEPT !.op = "__init__",
                                 !.exit = IF s.stop THEN "StopIteration" ELSE "return"]
  /\ repeat' = FALSE
  /\ UNCHANGED <<dump, iters, out, pure, direct>>

\* A get_next_record that starts the file over before it reads.
get_next_record_rewinds ==
  /\ pc = "ready"
  /\ LET r == accumulate(parse_start.gen, FALSE, << >>) IN
       /\ gen' = r.gen
       /\ repeat' = r.repeat
       /\ last' = [op |-> "get_next_record", exit |-> r.exit, lines |-> r.lines,
                   value |-> r.value, before |-> Before, by |-> 0]
       /\ out' = IF r.exit = "StopIteration" THEN out ELSE Append(out, Event(r))
       /\ direct' = IF iters = << >> /\ r.exit # "StopIteration"
                      THEN Append(direct, Event(r)) ELSE direct
       /\ pure' = (pure /\ r.exit = "StopIteration")
  /\ UNCHANGED <<dump, pc, columnNamesList, iters>>

\* A direct call marketdata.get_next_record().
get_next_record ==
  /\ pc = "ready"
  /\ LET r == call IN
       /\ gen' = r.gen
       /\ repeat' = r.repeat
       /\ last' = [op |-> "get_next_record", exit |-> r.exit, lines |-> r.lines,
                   value |-> r.value, before |-> Before, by |-> 0]
       /\ out' = IF r.exit = "StopIteration" THEN out ELSE Append(out, Event(r))
       /\ direct' = IF iters = << >> /\ r.exit # "StopIteration"
                      THEN Append(direct, Event(r)) ELSE direct
       /\ pure' = (pure /\ r.exit = "StopIteration")
  /\ UNCHANGED <<dump, pc, columnNamesList, iters>>

\* An __iter__ that leaves the lookahead flag as it is.
CSV_iter_keeps_flag ==
  /\ pc = "ready"
  /\ Len(iters) < MaxIters
  /\ LET s == parse_start IN
       /\ gen' = s.gen
       /\ iters' = IF s.stop THEN iters ELSE Append(iters, TRUE)
       /\ last' = [NoCall EXCEPT !.op = "__iter__",
                                 !.exit = IF s.stop THEN "StopIteration" ELSE "return",
                                 !.before = Before]
  /\ out' = << >>
  /\ pure' = TRUE
  /\ UNCHANGED <<dump, pc, columnNamesList, direct, repeat>>

\* An __iter__ that does not skip the header with gen.next().
CSV_iter_keeps_header ==
  /\ pc = "ready"
  /\ Len(iters) < MaxIters
  /\ gen' = [at |-> 0, done |-> FALSE]
  /\ repeat' = FALSE
  /\ iters' = Append(iters, TRUE)
  /\ last' = [NoCall EXCEPT !.op = "__iter__", !.exit = "return", !.before = Before]
  /\ out' = << >>
  /\ pure' = TRUE
  /\ UNCHANGED <<dump, pc, columnNamesList, direct>>

\* iter(marketdata): CSVKdbLogHandler.__iter__ clears the flag, replaces the
\* generator, skips the header and returns iter(self.get_next_record, None).
CSV_iter ==
  /\ pc = "ready"
  /\ Len(iters) < MaxIters
  /\ LET s == parse_start IN
       /\ gen' = s.gen
       /\ repeat' = FALSE
       /\ iters' = IF s.stop THEN iters ELSE Append(iters, TRUE)
       /\ last' = [NoCall EXCEPT !.op = "__iter__",
                                 !.exit = IF s.stop THEN "StopIteration" ELSE "return",
                                 !.before = Before]
  /\ out' = << >>
  /\ pure' = TRUE
  /\ UNCHANGED <<dump, pc, columnNamesList, direct>>

\* iter(callable, None): a step of the iterator ends the iteration when the
\* call raises StopIteration or returns the sentinel None (here NoSnapshot,
\* the value that is no snapshot).
iter_ends(r) ==
  \/ r.exit = "StopIteration"
  \/ r.exit = "return" /\ r.value = NoSnapshot

\* Iterators with a cursor each: an earlier iterator reads from the start of
\* the file instead of the handler's generator.
iterator_next_own_cursor(i) ==
  /\ pc = "ready"
  /\ i \in DOMAIN iters
  /\ IF ~iters[i]
       THEN /\ last' = [NoCall EXCEPT !.op = "next_finished", !.exit = "StopIteration",
                                      !.before = Before]
            /\ UNCHANGED <<gen, repeat, iters, out>>
       ELSE LET r == IF i < Len(iters) THEN accumulate(parse_start.gen, FALSE, << >>)
                         ELSE call IN
              /\ gen' = r.gen
              /\ repeat' = r.repeat
              /\ iters' = IF iter_ends(r) THEN [iters EXCEPT ![i] = FALSE] ELSE iters
              /\ last' = [op |-> "next", exit |-> r.exit, lines |-> r.lines,
                          value |-> r.value, before |-> Before, by |-> i]
              /\ out' = IF iter_ends(r) THEN out ELSE Append(out, Event(r))
  /\ UNCHANGED <<dump, pc, columnNamesList, pure, direct>>

\* next(it) on the i-th iterator: a callable-iterator calls get_next_record;
\* StopIteration from the call, or the sentinel None as its result, finishes
\* the iterator, and a finished iterator raises StopIteration without calling.
iterator_next(i) ==
  /\ pc = "ready"
  /\ i \in DOMAIN iters
  /\ IF ~iters[i]
       THEN /\ last' = [NoCall EXCEPT !.op = "next_finished", !.exit = "StopIteration",
                                      !.before = Before]
            /\ UNCHANGED <<gen, repeat, iters, out>>
       ELSE LET r == call IN
              /\ gen' = r.gen
              /\ repeat' = r.repeat
              /\ iters' = IF iter_ends(r) THEN [iters EXCEPT ![i] = FALSE] ELSE iters
              /\ last' = [op |-> "next", exit |-> r.exit, lines |-> r.lines,
                          value |-> r.value, before |-> Before, by |-> i]
              /\ out' = IF iter_ends(r) THEN out ELSE Append(out, Event(r))
  /\ UNCHANGED <<dump, pc, columnNamesList, pure, direct>>

\* "break" in the body of "for record in marketdata": the caller, holding the
\* record the iterator just delivered, leaves the loop.  Nothing of the
\* handler is touched: self.gen stays suspended at its yield.
break_pass ==
  /\ pc = "ready"
  /\ last.op = "next" /\ last.exit = "return"
  /\ last' = [NoCall EXCEPT !.op = "break", !.before = Before]
  /\ UNCHANGED <<dump, pc, gen, repeat, columnNamesList, iters, out, pure, direct>>

\* The file opened by "with open(filename) as dump" in the handler's current
\* generator is open from the start of the generator until the generator
\* finishes; a suspended generator keeps it open.  (A generator that __iter__
\* replaces loses its only reference and is finalised, which closes its file.)
handle_open == pc = "ready" /\ ~gen.done

Next ==
  \/ CSV_init
  \/ get_next_record
  \/ CSV_iter
  \/ \E i \in 1..MaxIters : iterator_next(i)
  \/ break_pass

Spec == Init /\ [][Next]_vars

(***************************************************************************)
(* The base class KdbLogHandler                                            *)
(***************************************************************************)
\* A base get_next_record with an empty body: it returns None.
Kdb_call_returns_none ==
  [exit |-> "return", lines |-> << >>, value |-> NoSnapshot]

\* KdbLogHandler.get_next_record: raise NotImplementedError.
Kdb_call ==
  [exit |-> "NotImplementedError", lines |-> << >>, value |-> NoSnapshot]

\* KdbLogHandler(filename): the constructor stores the file name only.
Kdb_init ==
  /\ pc = "new"
  /\ pc' = "base"
  /\ last' = [NoCall EXCEPT !.op = "__init__", !.exit = "return"]
  /\ UNCHANGED <<dump, gen, repeat, columnNamesList, iters, out, pure, direct>>

\* A direct call of get_next_record on the base handler.
Kdb_get_next_record ==
  /\ pc = "base"
  /\ LET r == Kdb_call IN
       /\ last' = [op |-> "get_next_record", exit |-> r.exit, lines |-> r.lines,
                   value |-> r.value, before |-> Before, by |-> 0]
       /\ out' = IF r.exit = "return" THEN Append(out, Event(r)) ELSE out
       /\ pure' = (pure /\ r.exit # "return")
  /\ UNCHANGED <<dump, pc, gen, repeat, columnNamesList, iters, direct>>

\* iter(handler) on the base handler: KdbLogHandler.__iter__ returns
\* iter(self.get_next_record, None) and touches nothing.
Kdb_iter ==
  /\ pc = "base"
  /\ Len(iters) < MaxIters
  /\ iters' = Append(iters, TRUE)
  /\ last' = [NoCall EXCEPT !.op = "__iter__", !.exit = "return", !.before = Before]
  /\ UNCHANGED <<dump, pc, gen, repeat, columnNamesList, out, pure, direct>>

\* next(it) on the i-th iterator of the base handler: the error of the call
\* passes through the iterator, which stays usable.
Kdb_iterator_next(i) ==
  /\ pc = "base"
  /\ i \in DOMAIN iters
  /\ IF ~iters[i]
       THEN /\ last' = [NoCall EXCEPT !.op = "next_finished", !.exit = "StopIteration",
                                      !.before = Before]
            /\ UNCHANGED <<iters, out>>
       ELSE LET r == Kdb_call IN
              /\ iters' = IF iter_ends(r) THEN [iters EXCEPT ![i] = FALSE] ELSE iters
              /\ last' = [op |-> "next", exit |-> r.exit, lines |-> r.lines,
                          value |-> r.value, before |-> Before, by |-> i]
              /\ out' = IF r.exit = "return" /\ ~iter_ends(r)
                          THEN Append(out, Event(r)) ELSE out
  /\ UNCHANGED <<dump, pc, gen, repeat, columnNamesList, pure, direct>>

NextBase ==
  \/ Kdb_init
  \/ Kdb_get_next_record
  \/ Kdb_iter
  \/ \E i \in 1..MaxIters : Kdb_iterator_next(i)

\* A handler of the base class.
SpecBase == Init /\ [][NextBase]_vars

\* The same handler over well-formed files only.
SpecWF == InitWF /\ [][Next]_vars

(***************************************************************************)
(* Properties                                                              *)
(***************************************************************************)
\* The operations that run get_next_record.
Calls == {"get_next_record", "next"}

Min(a, b) == IF a <= b THEN a ELSE b

IsPrefix(a, b) == Len(a) <= Len(b) /\ \A i \in DOMAIN a : a[i] = b[i]

SeenSeq(evs) == [i \in DOMAIN evs |-> Seen(evs[i])]

RECURSIVE Flatten(_)
Flatten(ss) == IF ss = << >> THEN << >> ELSE Head(ss) \o Flatten(Tail(ss))

\* What repeated get_next_record calls deliver on a freshly constructed handler.
Fresh == traverse(parse_start.gen, FALSE)

\* A freshly constructed handler, never restarted, has just signalled the end
\* of the stream.
EndOfFreshTraversal ==
  /\ pc = "ready" /\ iters = << >>
  /\ last.op = "get_next_record" /\ last.exit = "StopIteration"

\* C1 (as claimed): when the source runs out while rows are accumulated,
\* get_next_record returns their merged snapshot; the end of the stream is
\* signalled only when nothing was accumulated.
C1_FinalSnapshotReturned ==
  (last.op \in Calls /\ last.exit = "StopIteration") => last.lines = << >>

\* The boundary test of the code, written out on two rows with numeric levels.
Splits(p, c) == int(p.level) + 1 # int(c.level) /\ p.last # c.last

C3_OneSnapshotPerBaseRow ==
  EndOfFreshTraversal =>
    Len(direct) = Cardinality({i \in 2..Len(dump) : dump[i].level = "1"})

\* C4 (as claimed): every data row read before the end of the stream is
\* merged into exactly one returned snapshot, in file order.
C4_EveryRowMergedOnce ==
  EndOfFreshTraversal =>
    Flatten([i \in DOMAIN direct |-> direct[i].rows]) = [i \in 1..(Len(dump) - 1) |-> i + 1]

\* C5: __iter__ clears the lookahead flag and rewinds to the first data row
\* from any state, and every pass it starts delivers what repeated calls on a
\* fresh handler deliver (so two passes deliver the same results).
C5_IterRestarts ==
  /\ (last.op = "__iter__" /\ last.exit = "return") =>
       (~repeat /\ gen = [at |-> 1, done |-> FALSE])
  /\ (iters # << >> /\ pure) =>
       /\ IsPrefix(SeenSeq(out), Fresh)
       /\ gen.done => SeenSeq(out) = Fresh

\* C5 witness: a second pass has delivered a snapshot and reached the end of
\* the stream.
C5_Witness ==
  /\ Len(iters) >= 2 /\ pure
  /\ gen.done /\ out # << >>
  /\ out[1].exit = "return"

\* C6: N direct calls on the fresh handler and the first N items of an
\* iteration pass are the same results.
C6_DirectEqualsIteration ==
  (iters # << >> /\ pure) =>
     \A N \in 1..Min(Len(direct), Len(out)) : Seen(direct[N]) = Seen(out[N])

\* C6 witness: two direct calls and then two steps of a pass, each returning
\* a snapshot.
C6_Witness ==
  /\ iters # << >> /\ pure
  /\ Len(direct) >= 2 /\ Len(out) >= 2
  /\ out[2].exit = "return"

C8_RetryRaisesAgain ==
  (last.op \in Calls /\ last.exit = "ValueError") =>
     (call.exit = "ValueError" /\ call.lines = last.lines)

\* C9: once a call has signalled the end of the stream, every later call
\* without a restart signals it again and delivers nothing.
C9_NonResurrecting ==
  [][(last.op \in Calls /\ last.exit = "StopIteration" /\ last'.op \in Calls) =>
       (last'.exit = "StopIteration" /\ out' = out /\ gen'.done)]_vars

\* C9 witness: a call made on the exhausted generator signalled the end again.
C9_Witness ==
  /\ last.op \in Calls /\ last.exit = "StopIteration"
  /\ last.before.done

\* C10 (as claimed): on a source without data rows (a header only, or no line
\* at all) construction succeeds and the calls signal the end of the stream.
C10_ZeroRecords ==
  Len(dump) <= 1 =>
     /\ pc # "failed"
     /\ last.op \in Calls => last.exit = "StopIteration"
     /\ out = << >>

\* C10 (amended): on a source with a header and no data row construction
\* succeeds, every call signals the end of the stream and a pass delivers
\* nothing; on a source without any line construction raises StopIteration.
C10_HeaderOnly ==
  /\ Len(dump) = 1 =>
       /\ pc # "failed"
       /\ last.op = "__init__" => last.exit = "return" /\ columnNamesList = Header
       /\ last.op \in Calls => last.exit = "StopIteration"
       /\ out = << >>
  /\ (Len(dump) = 0 /\ pc # "new") =>
       (pc = "failed" /\ last.op = "__init__" /\ last.exit = "StopIteration")

\* C10 witness: on a header-only file an iterator's first step ended the pass.
C10_Witness ==
  /\ Len(dump) = 1 /\ pc = "ready"
  /\ last.op = "next" /\ last.exit = "StopIteration"
  /\ iters # << >> /\ out = << >>

\* The latest call returned a snapshot.
Returned == last.op \in Calls /\ last.exit = "return"

\* C11 (as claimed): on well-formed input, whether or not the last column
\* changes between consecutive updates, the rows merged into a returned
\* snapshot carry the levels 1, 2, ..., k: no level twice, none skipped.
C11_ContiguousLevels ==
  Returned => \A i \in DOMAIN last.lines : int(last.lines[i].level) = i

\* C12 (as claimed): every identity field of a returned snapshot (here the
\* last column) has the value it has in every row merged into the snapshot.
C12_IdentityOfEveryRow ==
  Returned => \A i \in DOMAIN last.lines : last.lines[i].last = last.value.ident

C14_HandleReleased ==
  (\/ pc = "failed"
   \/ last.op = "break"
   \/ last.op \in Calls /\ last.exit = "StopIteration")
  => ~handle_open

\* C15: across get_next_record calls the number of lines consumed never
\* decreases.  A call consumes one line for every row it pulls, except that
\* the first pull with the lookahead flag set delivers the buffered line again
\* without consuming one; the position goes back only in __iter__.
C15_MonotonePosition ==
  [][/\ last'.op \in Calls =>
          LET pulled == Len(last'.lines) + (IF last'.exit = "return" THEN 1 ELSE 0)
              again == IF repeat /\ ~gen.done THEN 1 ELSE 0
          IN /\ gen'.at >= gen.at
             /\ gen'.at = gen.at + pulled - again
             /\ (again = 1 /\ last'.lines # << >>) => last'.lines[1] = dump[gen.at]
             /\ (again = 0 /\ last'.lines # << >>) => last'.lines[1] = dump[gen.at + 1]
     /\ gen'.at < gen.at => last'.op = "__iter__"]_vars

\* C15 witness: a call that found the flag set took the buffered line as its
\* first row and then pulled further lines.
C15_Witness ==
  /\ last.op \in Calls /\ last.before.repeat
  /\ Len(last.lines) >= 2

\* C16: on a handler of the base class every get_next_record call, direct or
\* made by a step of an iterator, raises NotImplementedError: no call returns
\* a value, none signals the end of the stream, and no iterator finishes.
C16_BaseRaisesNotImplemented ==
  pc = "base" =>
    /\ last.op \in Calls => last.exit = "NotImplementedError"
    /\ last.exit # "StopIteration"
    /\ out = << >>
    /\ \A i \in DOMAIN iters : iters[i]

\* C16 witness: the first step of an iterator of the base handler raised
\* NotImplementedError.
C16_Witness ==
  /\ pc = "base" /\ iters # << >>
  /\ last.op = "next" /\ last.exit = "NotImplementedError"

\* C17: a value returned by get_next_record is a snapshot merged from at least
\* one data row, with at least one level entry, and is not None; an iterator
\* finishes only in a step whose call raised StopIteration.
C17_NeverNone ==
  [][last'.op \in Calls =>
       /\ last'.exit = "return" =>
            /\ last'.lines # << >>
            /\ \A i \in DOMAIN last'.lines :
                 last'.lines[i] \in {dump[j] : j \in 2..Len(dump)}
            /\ last'.value # NoSnapshot
            /\ DOMAIN last'.value.levels # {}
       /\ \A i \in DOMAIN iters :
            (iters[i] /\ ~iters'[i]) => last'.exit = "StopIteration"]_vars

\* C17 witness: a step of an iterator delivered a snapshot merged from one row
\* and the iterator is still usable.
C17_Witness ==
  /\ last.op = "next" /\ last.exit = "return"
  /\ Len(last.lines) = 1 /\ DOMAIN last.value.levels # {}
  /\ \E i \in DOMAIN iters : iters[i]

\* C18: every iterator of the handler draws from the one generator and flag.
\* In a pass delivered by iterators, whichever usable iterator steps, earlier
\* or latest, gets the next result of the restarted traversal (or the end of
\* the stream once all were delivered), so each result goes to exactly one
\* iterator and none is delivered twice; a finished iterator gets nothing and
\* moves nothing.
C18_OneCursorForAllIterators ==
  [][/\ (last'.op = "next" /\ pure' /\ Len(iters) >= 2) =>
          IF last'.exit = "StopIteration"
            THEN out' = out /\ Len(out) = Len(Fresh)
            ELSE /\ Len(out') = Len(out) + 1
                 /\ SubSeq(out', 1, Len(out)) = out
                 /\ Len(out') <= Len(Fresh)
                 /\ Seen(out'[Len(out')]) = Fresh[Len(out')]
                 /\ last'.by \in DOMAIN iters
                 /\ iters[last'.by]
     /\ last'.op = "next_finished" => (out' = out /\ gen' = gen /\ repeat' = repeat)]_vars

\* C18 witness: after the second __iter__ the iterators delivered two
\* snapshots of the restarted traversal, the second of them to the earlier
\* iterator.
C18_Witness ==
  /\ Len(iters) = 2 /\ pure /\ Len(out) = 2
  /\ out[1].exit = "return" /\ out[2].exit = "return"
  /\ last.op = "next" /\ last.by = 1

\* C19: __merge takes the identity fields from the first accumulated row only;
\* a row with level N writes the entry N-1; of the rows with one level the
\* latest provides the entry, so there is one entry per distinct level.
C19_MergeRule ==
  Returned =>
    /\ last.value.ident = last.lines[1].last
    /\ DOMAIN last.value.levels = {int(last.lines[i].level) - 1 : i \in DOMAIN last.lines}
    /\ \A i \in DOMAIN last.lines :
         (\A j \in DOMAIN last.lines : j > i => last.lines[j].level # last.lines[i].level)
           => last.value.levels[int(last.lines[i].level) - 1] = last.lines[i].bidask
    /\ Cardinality(DOMAIN last.value.levels) =
         Cardinality({last.lines[i].level : i \in DOMAIN last.lines})

\* C19 witness: a returned snapshot merged two rows with the same level and
\* holds the later row's entry.
C19_Witness ==
  /\ Returned
  /\ \E i, j \in DOMAIN last.lines :
       /\ i < j /\ last.lines[i].level = last.lines[j].level
       /\ last.value.levels[int(last.lines[j].level) - 1] = last.lines[j].bidask

====
